---- MODULE Spec2Model ----
(***************************************************************************)
(* A model of src/agent/prompt_manager.py (PromptManager and the global   *)
(* get_prompt_manager accessor) together with the backing content module  *)
(* src/agent/system_prompt.py.                                             *)
(*                                                                         *)
(* Strings are modelled as sequences of tokens: the two whitespace tokens  *)
(* " " and "\n" stand for whitespace characters, every other token for a  *)
(* run of non-whitespace content.  Optional arguments are modelled as      *)
(* sequences of length at most one: <<>> is None, <<x>> is the value x.    *)
(* A dict is modelled as a function whose DOMAIN is its key set.           *)
(***************************************************************************)
EXTENDS Integers, Sequences, FiniteSets, TLC

VARIABLES
    source,      \* the module bound to the name system_prompt: constant name -> text
    managers,    \* heap of PromptManager objects; managers[i] is the object's prompt_sections
    instance,    \* the global _prompt_manager_instance: 0 is None, else an index into managers
    loads,       \* how many times _load_prompt_sections has been entered
    tpc,         \* per thread: position inside get_prompt_manager
    tlocal,      \* per thread: the PromptManager object being constructed (0: none)
    tret,        \* per thread: the value get_prompt_manager returned (0: nothing yet)
    call,        \* the API call in progress on the manager (op = "none" when idle)
    client,      \* the llm_service object handed to update_system_instruction
    earlier      \* history: what an earlier get_system_prompt() with default arguments returned

vars == <<source, managers, instance, loads, tpc, tlocal, tret, call, client, earlier>>

----------------------------------------------------------------------------
(* Bounds of the model *)

NumThreads == 2
MaxInclude == 2
MaxExclude == 2

Threads == 1 .. NumThreads

\* The single thread of the sequential specification.
MainThread == CHOOSE t \in Threads : \A u \in Threads : t <= u

----------------------------------------------------------------------------
(* Text *)

None == <<>>
Some(x) == <<x>>

Whitespace == {" ", "\n"}

RECURSIVE LStrip(_)
LStrip(s) ==
    IF s # <<>> /\ Head(s) \in Whitespace THEN LStrip(Tail(s)) ELSE s

RECURSIVE RStrip(_)
RStrip(s) ==
    IF s # <<>> /\ s[Len(s)] \in Whitespace
    THEN RStrip(SubSeq(s, 1, Len(s) - 1))
    ELSE s

\* str.strip()
Strip(s) == RStrip(LStrip(s))

\* the separator of "\n\n".join
Separator == <<"\n", "\n">>

RECURSIVE Join(_)
Join(parts) ==
    IF parts = <<>> THEN <<>>
    ELSE IF Len(parts) = 1 THEN parts[1]
    ELSE parts[1] \o Separator \o Join(Tail(parts))

\* list membership: x in xs
InList(x, xs) == \E i \in 1 .. Len(xs) : xs[i] = x

\* [s for s in xs if s not in ys]
RECURSIVE NotInFilter(_, _)
NotInFilter(xs, ys) ==
    IF xs = <<>> THEN <<>>
    ELSE IF InList(Head(xs), ys) THEN NotInFilter(Tail(xs), ys)
    ELSE <<Head(xs)>> \o NotInFilter(Tail(xs), ys)

\* all sequences over S of length at most n
SeqsUpTo(S, n) == UNION {[1 .. k -> S] : k \in 0 .. n}

----------------------------------------------------------------------------
(* The section catalog and its backing module *)

SectionKeys ==
    {"core_identity", "language_rules", "startup_instructions",
     "mid_conversation", "tool_usage", "closing", "faq_info",
     "conversation_flow", "tone_style"}

\* the constant each catalog key is loaded from
ConstOf(key) ==
    CASE key = "core_identity" -> "CORE_IDENTITY"
      [] key = "language_rules" -> "LANGUAGE_RULES"
      [] key = "startup_instructions" -> "STARTUP_INSTRUCTIONS"
      [] key = "mid_conversation" -> "MID_CONVERSATION_RULES"
      [] key = "tool_usage" -> "TOOL_USAGE_GUIDELINES"
      [] key = "closing" -> "CLOSING_INSTRUCTIONS"
      [] key = "faq_info" -> "FAQ_AND_INFO"
      [] key = "conversation_flow" -> "CONVERSATION_FLOW"
      [] key = "tone_style" -> "TONE_AND_STYLE"

\* the names imported by _load_prompt_sections
ImportedNames == {ConstOf(k) : k \in SectionKeys}

\* The system_prompt module of the repository: it binds SYSTEM_PROMPT only.
RepoSource == [c \in {"SYSTEM_PROMPT"} |-> <<"\n", "SYSTEM_PROMPT", "\n">>]

\* A module binding all nine constants to non-blank text.
CompleteSource == [c \in ImportedNames |-> <<c>>]

\* Texts a constant may hold besides plain content: empty, whitespace-only,
\* content with surrounding whitespace.
DefectTexts(c) == {<<>>, <<" ", "\n">>, <<"\n", c, "\n">>}

\* the keys whose text the sample modules vary
VariedKeys == {"core_identity", "language_rules", "mid_conversation", "faq_info"}

DefectSources ==
    UNION {{[CompleteSource EXCEPT ![ConstOf(k)] = d] : d \in DefectTexts(ConstOf(k))} :
              k \in VariedKeys}

\* modules lacking one of the nine constants
MissingSources ==
    {[c \in ImportedNames \ {ConstOf(k)} |-> <<c>>] : k \in VariedKeys}

Sources == {RepoSource, CompleteSource} \cup DefectSources \cup MissingSources

\* from system_prompt import (...): ImportError unless all nine names are bound
ImportSucceeds(src) == ImportedNames \subseteq DOMAIN src

\* the dict literal assigned to self.prompt_sections
LoadedSections(src) == [k \in SectionKeys |-> src[ConstOf(k)]]

\* self.prompt_sections = {} in __init__
EmptySections == [k \in {} |-> <<>>]

----------------------------------------------------------------------------
(* PromptManager.get_system_prompt *)

\* ConversationStage values and one string outside the enumeration
Stages == {"startup", "mid_conversation", "closing", "active", "unknown_stage"}

\* mutant: the two always-included keys in the other order
AlwaysIncluded_Swapped == <<"language_rules", "core_identity">>

\* sections_to_include = ["core_identity", "language_rules"]
AlwaysIncluded == <<"core_identity", "language_rules">>

\* mutant: the chain without its last branch, so that "active" adds nothing
StageSections_NoActive(stage) ==
    IF stage = "startup"
    THEN <<"startup_instructions", "conversation_flow", "tone_style", "tool_usage">>
    ELSE IF stage = "mid_conversation"
    THEN <<"mid_conversation", "tone_style", "tool_usage">>
    ELSE IF stage = "closing"
    THEN <<"closing", "tone_style">>
    ELSE <<>>

\* the if/elif chain on stage: the keys passed to sections_to_include.extend
StageSections(stage) ==
    IF stage = "startup"
    THEN <<"startup_instructions", "conversation_flow", "tone_style", "tool_usage">>
    ELSE IF stage = "mid_conversation"
    THEN <<"mid_conversation", "tone_style", "tool_usage">>
    ELSE IF stage = "closing"
    THEN <<"closing", "tone_style">>
    ELSE IF stage = "active"
    THEN <<"mid_conversation", "tone_style", "tool_usage">>
    ELSE <<>>

\* truth value of an Optional[List]: None and [] are both false
ListTruthy(opt) == opt # None /\ Len(opt[1]) > 0

\* truth value of an Optional[Dict]: None and {} are both false
DictTruthy(opt) == opt # None /\ DOMAIN opt[1] # {}

\* truth value of a str
StrTruthy(s) == Len(s) > 0

\* if include_sections: sections_to_include = include_sections
ApplyInclude(work, include_sections) ==
    IF ListTruthy(include_sections) THEN include_sections[1] ELSE work

\* xs without the first occurrence of x (list.remove)
RECURSIVE RemoveFirst(_, _)
RemoveFirst(xs, x) ==
    IF xs = <<>> THEN <<>>
    ELSE IF Head(xs) = x THEN Tail(xs)
    ELSE <<Head(xs)>> \o RemoveFirst(Tail(xs), x)

RECURSIVE RemoveEach(_, _)
RemoveEach(xs, ys) ==
    IF ys = <<>> THEN xs ELSE RemoveEach(RemoveFirst(xs, Head(ys)), Tail(ys))

\* mutant: each excluded key is removed once, as by list.remove
ApplyExclude_RemoveFirst(work, exclude_sections) ==
    IF ListTruthy(exclude_sections) THEN RemoveEach(work, exclude_sections[1]) ELSE work

\* if exclude_sections: sections_to_include = [s for s in ... if s not in exclude_sections]
ApplyExclude(work, exclude_sections) ==
    IF ListTruthy(exclude_sections) THEN NotInFilter(work, exclude_sections[1]) ELSE work

\* the value of sections_to_include when the build loop starts
SelectSections(stage, include_sections, exclude_sections) ==
    ApplyExclude(ApplyInclude(AlwaysIncluded \o StageSections(stage), include_sections),
                 exclude_sections)

\* mutant: the exclusion removes the keys from the working list in place, and
\* the working list is the caller's object when the include override applied
CallerIncludeAfter_InPlace(stage, include_sections, exclude_sections) ==
    IF ListTruthy(include_sections)
    THEN Some(ApplyExclude(include_sections[1], exclude_sections))
    ELSE include_sections

\* The caller's include_sections list object once the call is over.  The
\* working list is bound to the caller's object by the include override, and the
\* exclusion then rebinds the name to a new list: the object is never written.
CallerIncludeAfter(stage, include_sections, exclude_sections) == include_sections

\* The caller's exclude_sections list object once the call is over: only read.
CallerExcludeAfter(stage, include_sections, exclude_sections) == exclude_sections

\* self.prompt_sections of the manager once the call is over: the build loop
\* tests membership and reads entries, and writes nothing.
SectionsAfterCall(sections, keys) == sections

\* section_name in self.prompt_sections
InCatalog(sections, key) == key \in DOMAIN sections

\* mutant: the test without strip(), "if section_content:"
HasContent_NoStrip(text) == text # <<>>

\* if section_content.strip():
HasContent(text) == Strip(text) # <<>>

\* One iteration of the build loop.  acc is [parts, unknown, error]: the
\* prompt_parts so far, the keys a warning was logged for, and the exception
\* raised ("" when none).
BuildStep(sections, key, acc) ==
    IF acc.error # "" THEN acc
    ELSE IF InCatalog(sections, key)
    THEN IF key \notin DOMAIN sections
         THEN [acc EXCEPT !.error = "KeyError"]
         ELSE IF HasContent(sections[key])
         THEN [acc EXCEPT !.parts = Append(@, sections[key])]
         ELSE acc
    ELSE [acc EXCEPT !.unknown = Append(@, key)]

RECURSIVE BuildLoop(_, _, _)
BuildLoop(sections, keys, acc) ==
    IF keys = <<>> THEN acc
    ELSE BuildLoop(sections, Tail(keys), BuildStep(sections, Head(keys), acc))

\* prompt_parts = []; for section_name in sections_to_include: ...
BuildParts(sections, keys) ==
    BuildLoop(sections, keys, [parts |-> <<>>, unknown |-> <<>>, error |-> ""])

\* datetime_info.get(key, 'N/A')
DictGet(d, key) == IF key \in DOMAIN d THEN d[key] ELSE "N/A"

\* the f-string of _format_datetime_context
FormatDatetimeContext(d) ==
    <<"\n", "## CURRENT DATE AND TIME INFORMATION", "\n", "\n",
      "**IMPORTANT: Use this information when answering questions about dates/times.**",
      "\n", "\n",
      "- **Current Date**:", " ", DictGet(d, "readable_date"), " ",
      "(", DictGet(d, "day_of_week"), ")", "\n",
      "- **Current Date (YYYY-MM-DD format)**:", " ", DictGet(d, "current_date"), "\n",
      "- **Current Time**:", " ", DictGet(d, "current_time"), " ",
      "(", DictGet(d, "timezone"), ")", "\n",
      "- **Tomorrow's Date**:", " ", DictGet(d, "tomorrow_readable"), " ",
      "(", DictGet(d, "tomorrow_day"), ")", "\n",
      "- **Tomorrow's Date (YYYY-MM-DD format)**:", " ", DictGet(d, "tomorrow_date"), "\n",
      "- Current timezone is", " ", DictGet(d, "timezone"), "\n">>

\* if datetime_info: prompt_parts.append(self._format_datetime_context(datetime_info))
DatetimeParts(datetime_info) ==
    IF DictTruthy(datetime_info) THEN <<FormatDatetimeContext(datetime_info[1])>> ELSE <<>>

\* if guardrails_context: prompt_parts.append(guardrails_context)
GuardrailsParts(guardrails_context) ==
    IF StrTruthy(guardrails_context) THEN <<guardrails_context>> ELSE <<>>

\* The whole of get_system_prompt on a manager whose prompt_sections is
\* `sections`: the locals at the return statement and the outcome.
GetSystemPromptRun(sections, stage, datetime_info, guardrails_context, include_sections, exclude_sections) ==
    LET work  == SelectSections(stage, include_sections, exclude_sections)
        built == BuildParts(sections, work)
        parts == built.parts \o DatetimeParts(datetime_info)
                             \o GuardrailsParts(guardrails_context)
    IN  [sections_to_include |-> work,
         section_parts       |-> built.parts,
         unknown             |-> built.unknown,
         prompt_parts        |-> IF built.error = "" THEN parts ELSE <<>>,
         raised              |-> built.error,
         result              |-> IF built.error = "" THEN Some(Join(parts)) ELSE None]

----------------------------------------------------------------------------
(* PromptManager.get_compact_prompt *)

\* compact_sections
CompactSections == <<"core_identity", "language_rules", "mid_conversation">>

\* One iteration of the loop of get_compact_prompt (no warning branch).
CompactStep(sections, key, parts) ==
    IF InCatalog(sections, key) /\ HasContent(sections[key])
    THEN Append(parts, sections[key])
    ELSE parts

RECURSIVE CompactLoop(_, _, _)
CompactLoop(sections, keys, parts) ==
    IF keys = <<>> THEN parts
    ELSE CompactLoop(sections, Tail(keys), CompactStep(sections, Head(keys), parts))

\* mutant: the closing section is added when the context names that stage
GetCompactPromptRun_ByContext(sections, context) ==
    LET keys  == IF context # None /\ "stage" \in DOMAIN context[1]
                 THEN Append(CompactSections, context[1]["stage"])
                 ELSE CompactSections
        parts == CompactLoop(sections, keys, <<>>)
    IN  [prompt_parts |-> parts, result |-> Some(Join(parts))]

\* the whole of get_compact_prompt; context is accepted and never read
GetCompactPromptRun(sections, context) ==
    LET parts == CompactLoop(sections, CompactSections, <<>>)
    IN  [prompt_parts |-> parts, result |-> Some(Join(parts))]

----------------------------------------------------------------------------
(* PromptManager.update_system_instruction *)

\* How the client answers getattr for system_instruction: no such attribute, a
\* plain attribute, a property without setter, a property whose getter raises
\* something other than AttributeError.
FieldKinds == {"absent", "plain", "readonly", "probe_raises"}

\* How the client answers for update_system_instruction: no such attribute, a
\* method that returns, a method that raises.
MethodKinds == {"absent", "ok", "raises"}

\* a client before the call
FreshClient(fk, mk) ==
    [field_kind         |-> fk,
     method_kind        |-> mk,
     system_instruction |-> IF fk \in {"plain", "readonly"} THEN Some(<<"OLD">>) ELSE None,
     received           |-> <<>>]

\* hasattr(llm_service, 'system_instruction'): "yes", "no" or "raises"
ProbeField(c) ==
    IF c.field_kind = "absent" THEN "no"
    ELSE IF c.field_kind = "probe_raises" THEN "raises"
    ELSE "yes"

\* hasattr(llm_service, 'update_system_instruction')
ProbeMethod(c) == IF c.method_kind = "absent" THEN "no" ELSE "yes"

\* llm_service.system_instruction = new_prompt
AssignField(c, new_prompt) ==
    IF c.field_kind = "readonly"
    THEN [client |-> c, returns |-> None, raised |-> "AttributeError"]
    ELSE [client  |-> [c EXCEPT !.system_instruction = Some(new_prompt)],
          returns |-> Some(TRUE), raised |-> ""]

\* llm_service.update_system_instruction(new_prompt)
InvokeMethod(c, new_prompt) ==
    LET got == [c EXCEPT !.received = Append(@, new_prompt)]
    IN  IF c.method_kind = "raises"
        THEN [client |-> got, returns |-> None, raised |-> "Exception"]
        ELSE [client |-> got, returns |-> Some(TRUE), raised |-> ""]

\* the if/elif/else on the client's capabilities
Dispatch(c, new_prompt) ==
    IF ProbeField(c) = "raises"
    THEN [client |-> c, returns |-> None, raised |-> "Exception"]
    ELSE IF ProbeField(c) = "yes" THEN AssignField(c, new_prompt)
    ELSE IF ProbeMethod(c) = "yes" THEN InvokeMethod(c, new_prompt)
    ELSE [client |-> c, returns |-> Some(FALSE), raised |-> ""]

\* the body of the try block
TryBody(sections, c, stage, datetime_info, guardrails_context) ==
    LET run == GetSystemPromptRun(sections, stage, datetime_info, guardrails_context,
                                  None, None)
    IN  IF run.raised # ""
        THEN [client |-> c, returns |-> None, raised |-> run.raised, new_prompt |-> None]
        ELSE [new_prompt |-> run.result] @@ Dispatch(c, run.result[1])

\* mutant: no handler, the exception leaves the function
ExceptHandler_Propagates(out) == out

\* except Exception as e: ... return False
ExceptHandler(out) ==
    IF out.raised # "" THEN [out EXCEPT !.returns = Some(FALSE), !.raised = ""] ELSE out

\* the whole of update_system_instruction
UpdateSystemInstructionRun(sections, c, stage, datetime_info, guardrails_context) ==
    ExceptHandler(TryBody(sections, c, stage, datetime_info, guardrails_context))

----------------------------------------------------------------------------
(* Inputs *)

IncludeKeys == {"core_identity", "faq_info", "no_such_section"}
ExcludeKeys == {"core_identity", "faq_info", "tone_style"}

IncludeInputs == {None} \cup {Some(l) : l \in SeqsUpTo(IncludeKeys, MaxInclude)}
ExcludeInputs == {None} \cup {Some(l) : l \in SeqsUpTo(ExcludeKeys, MaxExclude)}

EmptyDict == [k \in {} |-> ""]
PartialDatetime == [readable_date |-> "Monday, June 2", timezone |-> "IST"]

DatetimeInputs == {None, Some(EmptyDict), Some(PartialDatetime)}
GuardrailsInputs == {<<>>, <<" ">>, <<"GUARDRAILS">>}
ContextInputs == {None, Some(EmptyDict), Some([stage |-> "closing"])}

----------------------------------------------------------------------------
(* State machine *)

Idle == [op |-> "none"]

Init ==
    /\ source \in Sources
    /\ managers = <<>>
    /\ instance = 0
    /\ loads = 0
    /\ tpc = [t \in Threads |-> "start"]
    /\ tlocal = [t \in Threads |-> 0]
    /\ tret = [t \in Threads |-> 0]
    /\ call = Idle
    /\ client = FreshClient("absent", "absent")
    /\ earlier = None

\* get_prompt_manager: if _prompt_manager_instance is None
GpmCheck(t) ==
    /\ tpc[t] = "start"
    /\ tpc' = [tpc EXCEPT ![t] = IF instance = 0 THEN "init" ELSE "return"]
    /\ UNCHANGED <<source, managers, instance, loads, tlocal, tret, call, client, earlier>>

\* PromptManager.__init__: self.prompt_sections = {}
GpmInit(t) ==
    /\ tpc[t] = "init"
    /\ managers' = Append(managers, EmptySections)
    /\ tlocal' = [tlocal EXCEPT ![t] = Len(managers) + 1]
    /\ tpc' = [tpc EXCEPT ![t] = "load"]
    /\ UNCHANGED <<source, instance, loads, tret, call, client, earlier>>

\* PromptManager._load_prompt_sections, called from __init__
GpmLoad(t) ==
    /\ tpc[t] = "load"
    /\ loads' = loads + 1
    /\ IF ImportSucceeds(source)
       THEN /\ managers' = [managers EXCEPT ![tlocal[t]] = LoadedSections(source)]
            /\ tpc' = [tpc EXCEPT ![t] = "assign"]
            /\ UNCHANGED tlocal
       ELSE \* ImportError leaves __init__ and get_prompt_manager
            /\ tpc' = [tpc EXCEPT ![t] = "raised"]
            /\ tlocal' = [tlocal EXCEPT ![t] = 0]
            /\ UNCHANGED managers
    /\ UNCHANGED <<source, instance, tret, call, client, earlier>>

\* _prompt_manager_instance = PromptManager()   (the store)
GpmAssign(t) ==
    /\ tpc[t] = "assign"
    /\ instance' = tlocal[t]
    /\ tlocal' = [tlocal EXCEPT ![t] = 0]
    /\ tpc' = [tpc EXCEPT ![t] = "return"]
    /\ UNCHANGED <<source, managers, loads, tret, call, client, earlier>>

\* return _prompt_manager_instance
GpmReturn(t) ==
    /\ tpc[t] = "return"
    /\ tret' = [tret EXCEPT ![t] = instance]
    /\ tpc' = [tpc EXCEPT ![t] = "done"]
    /\ UNCHANGED <<source, managers, instance, loads, tlocal, call, client, earlier>>

GetPromptManager(t) ==
    GpmCheck(t) \/ GpmInit(t) \/ GpmLoad(t) \/ GpmAssign(t) \/ GpmReturn(t)

\* the sequential caller holds a manager and no call is in progress
Ready == tpc[MainThread] = "done" /\ tret[MainThread] # 0 /\ call = Idle

Self == tret[MainThread]

\* get_system_prompt() with every parameter at its default
IsDefaultCall(c) ==
    /\ c.op = "get_system_prompt"
    /\ c.stage = "startup"
    /\ c.datetime_info = None
    /\ c.guardrails_context = <<>>
    /\ c.include_sections = None
    /\ c.exclude_sections = None

GetSystemPrompt ==
    /\ Ready
    /\ \E stage \in Stages, dt \in DatetimeInputs, g \in GuardrailsInputs,
          inc \in IncludeInputs, exc \in ExcludeInputs :
         /\ call' = [op |-> "get_system_prompt",
                     stage |-> stage, datetime_info |-> dt, guardrails_context |-> g,
                     include_sections |-> inc, exclude_sections |-> exc,
                     caller_include |-> CallerIncludeAfter(stage, inc, exc),
                     caller_exclude |-> CallerExcludeAfter(stage, inc, exc)]
                    @@ GetSystemPromptRun(managers[Self], stage, dt, g, inc, exc)
         /\ managers' = [managers EXCEPT
                            ![Self] = SectionsAfterCall(@, SelectSections(stage, inc, exc))]
    /\ UNCHANGED <<source, instance, loads, tpc, tlocal, tret, client, earlier>>

GetCompactPrompt ==
    /\ Ready
    /\ \E context \in ContextInputs :
         call' = [op |-> "get_compact_prompt", context |-> context]
                 @@ GetCompactPromptRun(managers[Self], context)
    /\ managers' = [managers EXCEPT ![Self] = SectionsAfterCall(@, CompactSections)]
    /\ UNCHANGED <<source, instance, loads, tpc, tlocal, tret, client, earlier>>

UpdateSystemInstruction ==
    /\ Ready
    /\ \E fk \in FieldKinds, mk \in MethodKinds, stage \in Stages,
          dt \in DatetimeInputs, g \in GuardrailsInputs :
         LET out == UpdateSystemInstructionRun(managers[Self], FreshClient(fk, mk),
                                               stage, dt, g)
         IN  /\ call' = [op |-> "update_system_instruction",
                         stage |-> stage, datetime_info |-> dt,
                         guardrails_context |-> g,
                         client_before |-> FreshClient(fk, mk),
                         new_prompt |-> out.new_prompt,
                         returns |-> out.returns, raised |-> out.raised]
             /\ client' = out.client
             /\ managers' = [managers EXCEPT
                                ![Self] = SectionsAfterCall(@, SelectSections(stage, None, None))]
    /\ UNCHANGED <<source, instance, loads, tpc, tlocal, tret, earlier>>

\* the call returns to its caller
Return ==
    /\ call # Idle
    /\ call' = Idle
    /\ client' = FreshClient("absent", "absent")
    /\ earlier' = IF IsDefaultCall(call) THEN call.result ELSE earlier
    /\ UNCHANGED <<source, managers, instance, loads, tpc, tlocal, tret>>

Next ==
    \/ GetPromptManager(MainThread)
    \/ GetSystemPrompt
    \/ GetCompactPrompt
    \/ UpdateSystemInstruction
    \/ Return

Spec == Init /\ [][Next]_vars

NextRace == \E t \in Threads : GetPromptManager(t)

SpecRace == Init /\ [][NextRace]_vars

----------------------------------------------------------------------------
(* Vocabulary of the properties, stated without the operators of the model *)

\* the text has no token besides whitespace
IsBlank(text) == \A i \in 1 .. Len(text) : text[i] \in Whitespace

Elems(xs) == {xs[i] : i \in 1 .. Len(xs)}

\* keys contributes a block: it is in the catalog and its text is not blank
Contributes(sections, key) == key \in DOMAIN sections /\ ~IsBlank(sections[key])

\* the blocks of a list of keys: the texts of the contributing keys, in order
BlocksOf(sections, keys) ==
    LET kept == SelectSeq(keys, LAMBDA k : Contributes(sections, k))
    IN  [i \in 1 .. Len(kept) |-> sections[kept[i]]]

\* keys without the members of gone, order kept
Without(keys, gone) == SelectSeq(keys, LAMBDA k : k \notin gone)

\* where block i starts in the joined text: after the earlier blocks and one
\* two-newline separator for each of them
RECURSIVE StartOf(_, _)
StartOf(parts, i) ==
    IF i = 1 THEN 1 ELSE StartOf(parts, i - 1) + Len(parts[i - 1]) + 2

\* out is the blocks in order with exactly one blank-line separator between
\* consecutive blocks and nothing else
IsJoined(out, parts) ==
    IF parts = <<>> THEN out = <<>>
    ELSE /\ Len(out) = StartOf(parts, Len(parts)) + Len(parts[Len(parts)]) - 1
         /\ \A i \in 1 .. Len(parts) :
               SubSeq(out, StartOf(parts, i), StartOf(parts, i) + Len(parts[i]) - 1) = parts[i]
         /\ \A i \in 2 .. Len(parts) :
               /\ out[StartOf(parts, i) - 2] = "\n"
               /\ out[StartOf(parts, i) - 1] = "\n"

InGetSystemPrompt == call.op = "get_system_prompt"
InGetCompactPrompt == call.op = "get_compact_prompt"
InUpdate == call.op = "update_system_instruction"

\* the catalog of the manager the sequential caller holds
Catalog == managers[Self]

KnownStages == {"startup", "mid_conversation", "active", "closing"}

----------------------------------------------------------------------------
(* C1: with neither include_sections nor exclude_sections, the keys resolved  *)
(* into the prompt are core_identity, language_rules followed by the stage's  *)
(* keys of the fixed table (mid_conversation and active alike), and by nothing *)
(* for any other stage string; no exception is raised.                        *)

C1_Table(stage) ==
    CASE stage = "startup" ->
           <<"core_identity", "language_rules", "startup_instructions",
             "conversation_flow", "tone_style", "tool_usage">>
      [] stage \in {"mid_conversation", "active"} ->
           <<"core_identity", "language_rules", "mid_conversation",
             "tone_style", "tool_usage">>
      [] stage = "closing" ->
           <<"core_identity", "language_rules", "closing", "tone_style">>
      [] OTHER -> <<"core_identity", "language_rules">>

\* C1: the selected keys and their blocks follow the stage table; nothing is raised
C1_StageTable ==
    (InGetSystemPrompt /\ call.include_sections = None /\ call.exclude_sections = None)
    => /\ call.raised = ""
       /\ call.sections_to_include = C1_Table(call.stage)
       /\ call.section_parts = BlocksOf(Catalog, C1_Table(call.stage))

C1_Witness ==
    /\ InGetSystemPrompt
    /\ call.include_sections = None /\ call.exclude_sections = None
    /\ call.stage = "unknown_stage"
    /\ call.raised = ""
    /\ Len(call.section_parts) = 2

----------------------------------------------------------------------------
(* C2: whenever include_sections is a list (not None, possibly empty) the     *)
(* section blocks are exactly those of the caller's keys, in the order given;  *)
(* the always-included keys are not re-added; include_sections=[] yields no    *)
(* section block.  (Stated for calls without exclude_sections.)                *)

C2_IncludeReplaces ==
    (InGetSystemPrompt /\ call.include_sections # None /\ call.exclude_sections = None)
    => /\ call.sections_to_include = call.include_sections[1]
       /\ call.section_parts = BlocksOf(Catalog, call.include_sections[1])

----------------------------------------------------------------------------
(* C3: no key of exclude_sections contributes a block, whatever the stage and  *)
(* include_sections, always-included and explicitly included keys alike; every *)
(* occurrence of an excluded key is removed and the order of the remaining     *)
(* keys is unchanged.                                                          *)

C3_ExcludeWins ==
    (InGetSystemPrompt /\ call.exclude_sections # None)
    => LET gone   == Elems(call.exclude_sections[1])
           before == SelectSections(call.stage, call.include_sections, None)
       IN  /\ Elems(call.sections_to_include) \cap gone = {}
           /\ call.sections_to_include = Without(before, gone)
           /\ call.section_parts = BlocksOf(Catalog, Without(before, gone))
           /\ \A k \in gone :
                 Contributes(Catalog, k) => Catalog[k] \notin Elems(call.prompt_parts)

C3_Witness ==
    /\ InGetSystemPrompt
    /\ call.include_sections = Some(<<"faq_info", "faq_info">>)
    /\ call.exclude_sections = Some(<<"faq_info">>)
    /\ Contributes(Catalog, "faq_info")
    /\ call.sections_to_include = <<>>

----------------------------------------------------------------------------
(* C4: for every stage in {startup, mid_conversation, active, closing} the     *)
(* first two blocks are the core identity text and the language rules text,    *)
(* in that order, unless include_sections was supplied.                        *)

FirstTwoAreCore ==
    /\ Len(call.prompt_parts) >= 2
    /\ call.prompt_parts[1] = Catalog["core_identity"]
    /\ call.prompt_parts[2] = Catalog["language_rules"]

\* C4 as written, on catalogs whose two core texts are not blank
C4_Original ==
    ( /\ InGetSystemPrompt
      /\ call.stage \in KnownStages
      /\ call.include_sections = None
      /\ ~IsBlank(Catalog["core_identity"])
      /\ ~IsBlank(Catalog["language_rules"]) )
    => FirstTwoAreCore

\* C4 as amended: ... unless include_sections was supplied, exclude_sections
\* names core_identity or language_rules, or the text of either section is empty
\* or whitespace-only.
C4_Amended ==
    ( /\ InGetSystemPrompt
      /\ call.stage \in KnownStages
      /\ call.include_sections = None
      /\ \/ call.exclude_sections = None
         \/ Elems(call.exclude_sections[1]) \cap {"core_identity", "language_rules"} = {}
      /\ ~IsBlank(Catalog["core_identity"])
      /\ ~IsBlank(Catalog["language_rules"]) )
    => FirstTwoAreCore

C4_Witness ==
    /\ InGetSystemPrompt
    /\ call.stage = "closing"
    /\ call.include_sections = None
    /\ call.exclude_sections = Some(<<"tone_style">>)
    /\ FirstTwoAreCore
    /\ Len(call.section_parts) = 3

----------------------------------------------------------------------------
(* C5: get_system_prompt never fails on bad content: a selected key absent     *)
(* from the catalog and a section whose text is empty or whitespace-only each  *)
(* contribute no block, raise nothing, and leave no extra separator: the       *)
(* surviving blocks are joined by exactly one blank-line separator.            *)

C5_DegradesByOmission ==
    InGetSystemPrompt
    => /\ call.raised = ""
       /\ call.result # None
       /\ call.section_parts = BlocksOf(Catalog, call.sections_to_include)
       /\ call.unknown = Without(call.sections_to_include, DOMAIN Catalog)
       /\ IsJoined(call.result[1], call.prompt_parts)

C5_Witness ==
    /\ InGetSystemPrompt
    /\ call.include_sections = Some(<<"no_such_section", "faq_info">>)
    /\ call.exclude_sections = None
    /\ call.datetime_info = None /\ call.guardrails_context = <<>>
    /\ IsBlank(Catalog["faq_info"]) /\ Catalog["faq_info"] # <<>>
    /\ call.raised = ""
    /\ call.result = Some(<<>>)

----------------------------------------------------------------------------
(* C6: update_system_instruction always returns a definite boolean and never   *)
(* raises.  A settable system_instruction field is assigned the freshly        *)
(* assembled prompt and true is returned, the update operation not invoked     *)
(* even when present; otherwise an update operation is invoked once with the   *)
(* prompt and true is returned; with neither, false is returned and the client *)
(* is untouched; if probing, assigning or the operation raises, false.         *)

\* the prompt of get_system_prompt(stage, datetime_info, guardrails_context)
FreshPrompt ==
    GetSystemPromptRun(Catalog, call.stage, call.datetime_info,
                       call.guardrails_context, None, None).result[1]

\* C6: the outcome of update_system_instruction for each kind of client
C6_UpdateContract ==
    InUpdate
    => LET before == call.client_before
       IN  /\ call.raised = ""
           /\ call.returns \in {Some(TRUE), Some(FALSE)}
           /\ before.field_kind = "plain"
              => /\ call.returns = Some(TRUE)
                 /\ client.system_instruction = Some(FreshPrompt)
                 /\ client.received = <<>>
           /\ (before.field_kind = "absent" /\ before.method_kind = "ok")
              => /\ call.returns = Some(TRUE)
                 /\ client.received = <<FreshPrompt>>
           /\ (before.field_kind = "absent" /\ before.method_kind = "absent")
              => /\ call.returns = Some(FALSE)
                 /\ client = before
           /\ \/ before.field_kind \in {"probe_raises", "readonly"}
              \/ (before.field_kind = "absent" /\ before.method_kind = "raises")
              => call.returns = Some(FALSE)

C6_Witness ==
    /\ InUpdate
    /\ call.client_before.field_kind = "absent"
    /\ call.client_before.method_kind = "raises"
    /\ call.returns = Some(FALSE)
    /\ Len(client.received) = 1

----------------------------------------------------------------------------
(* C7: if several callers race on get_prompt_manager while the global instance *)
(* is unset, the catalog load runs exactly once and every caller gets the same *)
(* completed manager instance.                                                 *)

C7_LoadOnce ==
    (ImportSucceeds(source) /\ \A t \in Threads : tpc[t] = "done")
    => /\ loads = 1
       /\ \A t, u \in Threads : tret[t] = tret[u]

----------------------------------------------------------------------------
(* C8: constructing the PromptManager against the repository's system_prompt   *)
(* module yields a catalog with exactly the nine enumerated keys populated.    *)

C8_RepoCatalog ==
    (source = RepoSource /\ loads > 0)
    => /\ tpc[MainThread] # "raised"
       /\ \E i \in 1 .. Len(managers) : DOMAIN managers[i] = SectionKeys

----------------------------------------------------------------------------
(* C9: get_compact_prompt returns the non-empty texts of exactly               *)
(* core_identity, language_rules and mid_conversation, in that order, joined   *)
(* by a blank line, whatever its context argument and whatever came before.    *)

C9_CompactFixed ==
    InGetCompactPrompt
    => /\ call.prompt_parts =
             BlocksOf(Catalog, <<"core_identity", "language_rules", "mid_conversation">>)
       /\ call.result # None
       /\ IsJoined(call.result[1], call.prompt_parts)

C9_Witness ==
    /\ InGetCompactPrompt
    /\ call.context = Some([stage |-> "closing"])
    /\ earlier # None
    /\ IsBlank(Catalog["mid_conversation"])
    /\ Len(call.prompt_parts) = 2

----------------------------------------------------------------------------
(* C10: a call of get_system_prompt, get_compact_prompt or                     *)
(* update_system_instruction leaves the section catalog and the caller's       *)
(* include_sections and exclude_sections lists unchanged, and what             *)
(* get_system_prompt returns does not depend on any earlier call.              *)

CallStep == call = Idle /\ call' # Idle

----------------------------------------------------------------------------
(* Vocabulary of the properties about the appended context blocks *)

\* the blocks of prompt_parts that follow the section blocks
ContextBlocks ==
    SubSeq(call.prompt_parts, Len(call.section_parts) + 1, Len(call.prompt_parts))

\* the block is a datetime block: it opens with the heading of the template
IsDatetimeBlock(part) ==
    Len(part) >= 2 /\ part[1] = "\n" /\ part[2] = "## CURRENT DATE AND TIME INFORMATION"

\* how many datetime blocks a list of blocks holds
DatetimeBlockCount(parts) ==
    Cardinality({i \in 1 .. Len(parts) : IsDatetimeBlock(parts[i])})

\* the fields the template reads
DatetimeFields ==
    {"readable_date", "day_of_week", "current_date", "current_time", "timezone",
     "tomorrow_readable", "tomorrow_day", "tomorrow_date"}

----------------------------------------------------------------------------
(* C11: guardrails_context is appended verbatim as the final block if and only *)
(* if it is supplied and non-empty after trimming surrounding whitespace; an   *)
(* empty or whitespace-only guardrails_context adds no block.                  *)

C11_GuardrailsIffNonBlank ==
    InGetSystemPrompt
    => LET g     == call.guardrails_context
           extra == ContextBlocks
       IN  IF IsBlank(g)
           THEN \A i \in 1 .. Len(extra) : IsDatetimeBlock(extra[i])
           ELSE /\ extra # <<>>
                /\ extra[Len(extra)] = g
                /\ \A i \in 1 .. Len(extra) - 1 : IsDatetimeBlock(extra[i])

----------------------------------------------------------------------------
(* C12: whenever datetime_info is supplied (any record, including one with     *)
(* some or all fields missing) exactly one datetime block follows the section  *)
(* blocks and precedes the guardrails block, each missing field rendered as    *)
(* the placeholder; when datetime_info is not supplied there is no datetime    *)
(* block.                                                                      *)

C12_DatetimeBlock ==
    InGetSystemPrompt
    => LET extra == ContextBlocks
       IN  IF call.datetime_info = None
           THEN DatetimeBlockCount(call.prompt_parts) = 0
           ELSE /\ DatetimeBlockCount(call.prompt_parts) = 1
                /\ extra # <<>>
                /\ IsDatetimeBlock(extra[1])
                /\ \A k \in DatetimeFields :
                      (IF k \in DOMAIN call.datetime_info[1]
                       THEN call.datetime_info[1][k] ELSE "N/A") \in Elems(extra[1])

====
